---------------------------- MODULE Spec2Model ----------------------------
(***************************************************************************)
(* A model of app.py, the MLB home-run pace dashboard:                     *)
(*   - fetch_hr_log: eligibility mask, home-run filter, sort, numbering,   *)
(*     pitcher display names;                                              *)
(*   - normalize_name and fuzzy_player_lookup;                             *)
(*   - player_map and the sidebar selection that feeds fetch_hr_log;       *)
(*   - ai_suggest_pairs, the Suggest / Retry button and the rendering of   *)
(*     the stored suggestion or error.                                     *)
(* Dates are the integers yyyymmdd, which order as the calendar does.      *)
(* A character is a one-element string; a text is a sequence of them.      *)
(* An optional value is <<>> (None) or <<v>>.                              *)
(***************************************************************************)
EXTENDS Integers, Sequences, FiniteSets, TLC

VARIABLES
    \* fetch_hr_log
    events,         \* the frame statcast_batter returned, one record per pitch
    team_abbr,      \* the team code passed to fetch_hr_log
    df_ret,         \* the frame fetch_hr_log returned
    lookup_log,     \* what playerid_reverse_lookup did for each returned row
    hr_pc,
    \* normalize_name
    name, norm1, norm2, nm_pc,
    \* roster, player_map, fuzzy_player_lookup
    star_players, player_map, ai_name, fuzzy_ret, fz_pc,
    \* sidebar selection and the main content's two fetch_hr_log calls
    team1_abbr, player1_name, team2_abbr, player2_name, start_date,
    no_game_msgs, fetch_calls, sb_pc,
    \* ai_suggest_pairs, st.session_state and the rendering
    last_suggest, suggest_error, replies, call, rendered, ai_pc

hr_vars == <<events, team_abbr, df_ret, lookup_log, hr_pc>>
nm_vars == <<name, norm1, norm2, nm_pc>>
fz_vars == <<star_players, player_map, ai_name, fuzzy_ret, fz_pc>>
sb_vars == <<team1_abbr, player1_name, team2_abbr, player2_name, start_date,
             no_game_msgs, fetch_calls, sb_pc>>
ai_vars == <<last_suggest, suggest_error, replies, call, rendered, ai_pc>>
vars == <<hr_vars, nm_vars, fz_vars, sb_vars, ai_vars>>

None == <<>>
Some(v) == <<v>>

\* The parts of the program a specification does not exercise stay idle.
HrIdle ==
    /\ events = <<>> /\ team_abbr = "" /\ df_ret = <<>>
    /\ lookup_log = <<>> /\ hr_pc = "idle"
NmIdle ==
    /\ name = <<>> /\ norm1 = <<>> /\ norm2 = <<>> /\ nm_pc = "idle"
FzIdle ==
    /\ star_players = <<>> /\ player_map = <<>> /\ ai_name = <<>>
    /\ fuzzy_ret = None /\ fz_pc = "idle"
SbIdle ==
    /\ team1_abbr = "" /\ player1_name = None /\ team2_abbr = ""
    /\ player2_name = None /\ start_date = 0 /\ no_game_msgs = <<>>
    /\ fetch_calls = <<>> /\ sb_pc = "idle"
AiIdle ==
    /\ last_suggest = None /\ suggest_error = None /\ replies = <<>>
    /\ call = None /\ rendered = "nothing" /\ ai_pc = "idle"

(***************************************************************************)
(* fetch_hr_log                                                            *)
(***************************************************************************)
MaxEvents == 2

TOKYO_START == 20250318
TOKYO_2 == 20250319
REGULAR_START == 20250327

\* The missing value of the 'pitcher' column (pd.notna is false of it).
NaN == -1
PitcherIds == {605141}
GameDates == {<<2025, 3, 18>>, <<2025, 3, 19>>, <<2025, 3, 20>>,
              <<2025, 3, 27>>, <<2025, 3, 28>>}
EventTypes == {"home_run", "single"}
TeamCodes == {"LAD", "CHC", "NYY"}

\* One row of the statcast frame, without its index.
PitchRows ==
    [game_date : GameDates, events : EventTypes, pitcher : PitcherIds \cup {NaN}]

\* The frames statcast_batter can return: rows indexed 1..n in feed order.
Frames ==
    UNION {{[i \in 1..n |-> [index |-> i, game_date |-> f[i].game_date,
                             events |-> f[i].events, pitcher |-> f[i].pitcher]] :
            f \in [1..n -> PitchRows]} : n \in 0..MaxEvents}

\* pd.to_datetime of a 'yyyy-mm-dd' string.
ToDatetime(g) == g[1] * 10000 + g[2] * 100 + g[3]

\* Timestamp.strftime('%m-%d'): the month and the day of the month.
StrftimeMD(d) == <<(d \div 100) % 100, d % 100>>

\* The mask with the regular-season start itself left out.
Mask_StrictStart(d, abbr) ==
    IF abbr \in {"LAD", "CHC"}
    THEN d \in {TOKYO_START, TOKYO_2} \/ d > REGULAR_START
    ELSE d > REGULAR_START

\* The boolean mask of lines 81-85.
Mask(d, abbr) ==
    IF abbr \in {"LAD", "CHC"}
    THEN d \in {TOKYO_START, TOKYO_2} \/ d >= REGULAR_START
    ELSE d >= REGULAR_START

\* df['Date'] = pd.to_datetime(df['game_date'])
WithDate(df) ==
    [i \in 1..Len(df) |->
        [index |-> df[i].index, game_date |-> df[i].game_date,
         events |-> df[i].events, pitcher |-> df[i].pitcher,
         Date |-> ToDatetime(df[i].game_date)]]

\* df.loc[mask], then df[df['events'] == 'home_run']
Retained(df, abbr) ==
    LET keep(r) == Mask(r.Date, abbr)
        hr(r) == r.events = "home_run"
    IN SelectSeq(SelectSeq(WithDate(df), keep), hr)

RECURSIVE SortValues(_)
\* .sort_values('Date') with the default kind='quicksort', which is not a
\* stable sort: every arrangement of the rows in ascending Date order is a
\* possible result, whatever the rows' order in the frame.
SortValues(rows) ==
    IF rows = {} THEN {<<>>}
    ELSE UNION {{<<r>> \o t : t \in SortValues(rows \ {r})} :
                r \in {r \in rows : \A q \in rows : r.Date <= q.Date}}

Range(s) == {s[i] : i \in 1..Len(s)}

\* playerid_reverse_lookup's register of names, and what one call can do.
Register == [p \in PitcherIds |-> [name_first |-> "clayton", name_last |-> "kershaw"]]
LookupOutcomes == {"raised", "found"}

\* pid2name, lines 95-100, for a call whose lookup did `outcome`.
pid2name(p, outcome) ==
    IF outcome = "found" /\ p \in DOMAIN Register
    THEN Register[p].name_first \o " " \o Register[p].name_last
    ELSE ToString(p)

\* The lambda without its pd.notna test.
PitcherName_NoNaTest(x, outcome) == pid2name(x, outcome)

\* lambda x: pid2name(x) if pd.notna(x) else ''
PitcherName(x, outcome) == IF x # NaN THEN pid2name(x, outcome) ELSE ""

\* The numbering taken from the index the rows had before reset_index.
Annotate_OldIndex(sorted, outcomes) ==
    [i \in 1..Len(sorted) |->
        [index |-> i, row |-> sorted[i].index, Date |-> sorted[i].Date,
         events |-> sorted[i].events, pitcher |-> sorted[i].pitcher,
         HRNo |-> sorted[i].index, MMDD |-> StrftimeMD(sorted[i].Date),
         Pitcher |-> PitcherName(sorted[i].pitcher, outcomes[i])]]

\* Lines 93-102: the rows of the sorted frame after reset_index(drop=True),
\* with 'HR No', 'MM-DD' and 'Pitcher'.
Annotate(sorted, outcomes) ==
    [i \in 1..Len(sorted) |->
        [index |-> i, row |-> sorted[i].index, Date |-> sorted[i].Date,
         events |-> sorted[i].events, pitcher |-> sorted[i].pitcher,
         HRNo |-> i, MMDD |-> StrftimeMD(sorted[i].Date),
         Pitcher |-> PitcherName(sorted[i].pitcher, outcomes[i])]]

\* What the lookup did for a row: nothing when the pitcher is missing.
LogOf(sorted, outcomes) ==
    [i \in 1..Len(sorted) |->
        IF sorted[i].pitcher = NaN THEN "skipped" ELSE outcomes[i]]

HrInit ==
    /\ events \in Frames
    /\ team_abbr \in TeamCodes
    /\ df_ret = <<>>
    /\ lookup_log = <<>>
    /\ hr_pc = "call"
    /\ NmIdle /\ FzIdle /\ SbIdle /\ AiIdle

\* fetch_hr_log(pid, start, end, team_abbr), lines 74-103.
FetchHrLog ==
    /\ hr_pc = "call"
    /\ hr_pc' = "returned"
    /\ IF events = <<>>
       THEN /\ df_ret' = events
            /\ lookup_log' = <<>>
       ELSE \E sorted \in SortValues(Range(Retained(events, team_abbr))) :
            \E outcomes \in [1..Len(sorted) -> LookupOutcomes] :
               /\ df_ret' = Annotate(sorted, outcomes)
               /\ lookup_log' = LogOf(sorted, outcomes)
    /\ UNCHANGED <<events, team_abbr, nm_vars, fz_vars, sb_vars, ai_vars>>

HrNext == FetchHrLog
SpecHR == HrInit /\ [][HrNext]_vars


(***************************************************************************)
(* Properties of fetch_hr_log                                              *)
(***************************************************************************)
\* Calendar order on the feed's dates <<year, month, day>>.
OnOrAfter(g, h) ==
    \/ g[1] > h[1]
    \/ g[1] = h[1] /\ g[2] > h[2]
    \/ g[1] = h[1] /\ g[2] = h[2] /\ g[3] >= h[3]

\* The eligibility rule as the specification words it.
Eligible(g, abbr) ==
    IF abbr \in {"LAD", "CHC"}
    THEN g \in {<<2025, 3, 18>>, <<2025, 3, 19>>} \/ OnOrAfter(g, <<2025, 3, 27>>)
    ELSE OnOrAfter(g, <<2025, 3, 27>>)

\* The positions of the input rows that are eligible home runs.
EligibleHomeRuns ==
    {i \in 1..Len(events) :
        events[i].events = "home_run" /\ Eligible(events[i].game_date, team_abbr)}

\* C1: the returned records carry 'HR No' 1, 2, ..., N in output order, N the
\* number of retained home-run rows, and a larger 'HR No' never has an
\* earlier date.
C1_SequenceNumbers ==
    hr_pc = "returned" =>
        /\ Len(df_ret) = Cardinality(EligibleHomeRuns)
        /\ \A i \in 1..Len(df_ret) : df_ret[i].HRNo = i
        /\ \A i, j \in 1..Len(df_ret) :
              df_ret[i].HRNo < df_ret[j].HRNo => df_ret[i].Date <= df_ret[j].Date

\* Two home runs fed latest first come back numbered 1, 2 in date order.
C1_Witness ==
    /\ hr_pc = "returned"
    /\ Len(df_ret) = 2
    /\ df_ret[1].row = 2 /\ df_ret[2].row = 1
    /\ df_ret[1].Date < df_ret[2].Date
    /\ df_ret[1].HRNo = 1 /\ df_ret[2].HRNo = 2

\* C2: the output holds exactly the input rows that are home runs on a date
\* eligible for the team code, each exactly once.
C2_ExactlyEligibleHomeRuns ==
    hr_pc = "returned" =>
        /\ {df_ret[i].row : i \in 1..Len(df_ret)} = EligibleHomeRuns
        /\ \A i, j \in 1..Len(df_ret) : df_ret[i].row = df_ret[j].row => i = j
        /\ \A i \in 1..Len(df_ret) :
              /\ df_ret[i].events = "home_run"
              /\ df_ret[i].pitcher = events[df_ret[i].row].pitcher
              /\ StrftimeMD(df_ret[i].Date) =
                    <<events[df_ret[i].row].game_date[2],
                      events[df_ret[i].row].game_date[3]>>

\* A 2025-03-18 home run and a 2025-03-27 one: for NYY only the second is kept.
C2_Witness ==
    /\ hr_pc = "returned"
    /\ team_abbr = "NYY"
    /\ Len(events) = 2
    /\ events[1].game_date = <<2025, 3, 18>> /\ events[1].events = "home_run"
    /\ events[2].game_date = <<2025, 3, 27>> /\ events[2].events = "home_run"
    /\ Len(df_ret) = 1 /\ df_ret[1].row = 2

\* C3: two retained events of the same date keep the relative order they had
\* in the input.
C3_StableOnTies ==
    hr_pc = "returned" =>
        \A i, j \in 1..Len(df_ret) :
            (i < j /\ df_ret[i].Date = df_ret[j].Date) => df_ret[i].row < df_ret[j].row

\* The decimal text of the pitcher identifiers.
IdText == [p \in PitcherIds |-> "605141"]

\* C4: the pitcher display name is '' for a missing identifier, the
\* stringified identifier when the lookup fails, 'first last' otherwise; and
\* a failing lookup drops no record.
C4_PitcherName ==
    hr_pc = "returned" =>
        /\ Len(lookup_log) = Len(df_ret)
        /\ Len(df_ret) = Cardinality(EligibleHomeRuns)
        /\ \A i \in 1..Len(df_ret) :
              /\ df_ret[i].pitcher = NaN => df_ret[i].Pitcher = ""
              /\ (df_ret[i].pitcher # NaN /\ lookup_log[i] = "raised") =>
                    df_ret[i].Pitcher = IdText[df_ret[i].pitcher]
              /\ (df_ret[i].pitcher # NaN /\ lookup_log[i] = "found") =>
                    df_ret[i].Pitcher = "clayton kershaw"

\* One returned row without a pitcher and one whose lookup raised.
C4_Witness ==
    /\ hr_pc = "returned"
    /\ Len(df_ret) = 2
    /\ df_ret[1].pitcher = NaN /\ df_ret[1].Pitcher = ""
    /\ lookup_log[2] = "raised" /\ df_ret[2].Pitcher = "605141"


(***************************************************************************)
(* normalize_name                                                          *)
(* A character is a string naming it: "eacute" is U+00E9, "Eacute" is      *)
(* U+00C9, "acute" is the combining mark U+0301 and "NL" is the newline.   *)
(***************************************************************************)
MaxNameLen == 4

AsciiLower == {"a", "b", "c", "d", "e", "j", "r"}
AsciiUpper == {"A", "B", "E", "J", "R"}
Digits == {"1"}
Alphabet == {"j", "r", "J", "eacute", "Eacute", "1", " ", "."}

\* The texts of at most n characters over the character set cs.
Texts(cs, n) == UNION {[1..k -> cs] : k \in 0..n}

\* str.lower of one character.
Lower(c) ==
    CASE c = "A" -> "a" [] c = "B" -> "b" [] c = "E" -> "e"
      [] c = "J" -> "j" [] c = "R" -> "r"
      [] c = "Eacute" -> "eacute"
      [] OTHER -> c

\* unicodedata.normalize("NFKD", c) of one character.
NFKD(c) ==
    CASE c = "eacute" -> <<"e", "acute">>
      [] c = "Eacute" -> <<"E", "acute">>
      [] OTHER -> <<c>>

\* unicodedata.combining(c) is non-zero.
combining(c) == c = "acute"

\* \w of a str pattern: letters of any script, digits, the underscore.
IsWord(c) == c \in AsciiLower \cup AsciiUpper \cup Digits \cup {"eacute", "Eacute", "_"}

\* \s, and what str.strip and str.split treat as whitespace.
IsSpace(c) == c \in {" ", "NL"}

\* Line 106.
LowerAll(s) == [i \in 1..Len(s) |-> Lower(s[i])]

RECURSIVE Decompose(_)
\* Line 107.
Decompose(s) == IF s = <<>> THEN <<>> ELSE NFKD(Head(s)) \o Decompose(Tail(s))

\* Line 108.
DropCombining(s) == LET keep(c) == ~combining(c) IN SelectSeq(s, keep)

\* Line 109: re.sub(r"[^a-z0-9 ]", "", name).
DropOther(s) ==
    LET keep(c) == c \in AsciiLower \cup Digits \cup {" "} IN SelectSeq(s, keep)

\* \bjr\b matches at position i of s.
JrAt(s, i) ==
    /\ i + 1 <= Len(s)
    /\ s[i] = "j" /\ s[i + 1] = "r"
    /\ (i = 1 \/ ~IsWord(s[i - 1]))
    /\ (i + 1 = Len(s) \/ ~IsWord(s[i + 2]))

RECURSIVE DropJrFrom(_, _)
DropJrFrom(s, i) ==
    IF i > Len(s) THEN <<>>
    ELSE IF JrAt(s, i) THEN DropJrFrom(s, i + 2)
    ELSE <<s[i]>> \o DropJrFrom(s, i + 1)

\* Line 110: re.sub(r"\bjr\b", "", name), matches taken left to right.
DropJr(s) == DropJrFrom(s, 1)

RECURSIVE CollapseFrom(_, _)
CollapseFrom(s, i) ==
    IF i > Len(s) THEN <<>>
    ELSE IF IsSpace(s[i])
         THEN IF i > 1 /\ IsSpace(s[i - 1])
              THEN CollapseFrom(s, i + 1)
              ELSE <<" ">> \o CollapseFrom(s, i + 1)
         ELSE <<s[i]>> \o CollapseFrom(s, i + 1)

\* re.sub(r"\s+", " ", name): each run of whitespace becomes one space.
Collapse(s) == CollapseFrom(s, 1)

RECURSIVE LStrip(_)
LStrip(s) == IF s # <<>> /\ IsSpace(Head(s)) THEN LStrip(Tail(s)) ELSE s

RECURSIVE RStrip(_)
RStrip(s) ==
    IF s # <<>> /\ IsSpace(s[Len(s)]) THEN RStrip(SubSeq(s, 1, Len(s) - 1)) ELSE s

\* str.strip()
Strip(s) == RStrip(LStrip(s))

\* normalize_name with the suffix removed before the punctuation.
normalize_name_JrFirst(n) ==
    Strip(Collapse(DropOther(DropJr(DropCombining(Decompose(LowerAll(n)))))))

\* normalize_name, lines 105-112.
normalize_name(n) ==
    Strip(Collapse(DropJr(DropOther(DropCombining(Decompose(LowerAll(n)))))))

NmInit ==
    /\ name \in Texts(Alphabet, MaxNameLen)
    /\ norm1 = <<>> /\ norm2 = <<>>
    /\ nm_pc = "start"
    /\ HrIdle /\ FzIdle /\ SbIdle /\ AiIdle

\* name = normalize_name(name)
Normalize ==
    /\ nm_pc = "start"
    /\ norm1' = normalize_name(name)
    /\ nm_pc' = "once"
    /\ UNCHANGED <<name, norm2, hr_vars, fz_vars, sb_vars, ai_vars>>

\* normalize_name applied to its own result
NormalizeAgain ==
    /\ nm_pc = "once"
    /\ norm2' = normalize_name(norm1)
    /\ nm_pc' = "twice"
    /\ UNCHANGED <<name, norm1, hr_vars, fz_vars, sb_vars, ai_vars>>

NmNext == Normalize \/ NormalizeAgain
SpecNorm == NmInit /\ [][NmNext]_vars

\* C6: normalize_name(normalize_name(n)) = normalize_name(n) for every name n.
C6_Idempotent == nm_pc = "twice" => norm2 = norm1

\* 'É Jr' normalizes to 'e' (case, accent, punctuation and suffix all act),
\* and normalizing 'e' again gives 'e'.
C6_Witness ==
    /\ nm_pc = "twice"
    /\ name = <<"Eacute", " ", "J", "r">>
    /\ norm1 = <<"e">>
    /\ norm2 = <<"e">>


(***************************************************************************)
(* star_players, player_map and fuzzy_player_lookup                        *)
(***************************************************************************)
MaxRoster == 2

\* Display names a roster can hold: 'a b', 'A b', 'a c', 'c', 'b jr.', '.'.
RosterNames ==
    {<<"a", " ", "b">>, <<"A", " ", "b">>, <<"a", " ", "c">>, <<"c">>,
     <<"b", " ", "j", "r", ".">>, <<".">>}

\* Names the suggestion service can come up with: the roster's, and
\* 'b', 'B  A', 'd' and the empty name.
CandidateNames ==
    RosterNames \cup {<<"b">>, <<"B", " ", " ", "A">>, <<"d">>, <<>>}

RosterTeams == {"LAD", "NYY"}

\* What build_star_players can return (lines 50-65): (name, pid, team) rows
\* with non-empty names and distinct person ids, here the row numbers.
Rosters ==
    UNION {{[i \in 1..n |-> [name |-> f[i].name, pid |-> i, team |-> f[i].team]] :
            f \in [1..n -> [name : RosterNames, team : RosterTeams]]} :
           n \in 0..MaxRoster}

\* The position of key k in the dict d (a sequence of items), 0 if absent.
KeyIndex(d, k) ==
    IF \E i \in 1..Len(d) : d[i].name = k
    THEN CHOOSE i \in 1..Len(d) : d[i].name = k
    ELSE 0

RECURSIVE DictFrom(_, _, _)
\* A dict comprehension over rows[i..]: a key seen before keeps its place
\* and takes the later value.
DictFrom(rows, i, d) ==
    IF i > Len(rows) THEN d
    ELSE LET k == KeyIndex(d, rows[i].name)
         IN IF k = 0
            THEN DictFrom(rows, i + 1, Append(d, rows[i]))
            ELSE DictFrom(rows, i + 1, [d EXCEPT ![k] = rows[i]])

\* player_map = {name: (pid, team) for name, pid, team in star_players}
BuildPlayerMap(rows) == DictFrom(rows, 1, <<>>)

\* player_map[k] as the tuple (pid, team).
Value(item) == <<item.pid, item.team>>

RECURSIVE SplitFrom(_, _, _)
SplitFrom(s, i, word) ==
    IF i > Len(s) THEN (IF word = <<>> THEN {} ELSE {word})
    ELSE IF IsSpace(s[i])
         THEN (IF word = <<>> THEN {} ELSE {word}) \cup SplitFrom(s, i + 1, <<>>)
         ELSE SplitFrom(s, i + 1, Append(word, s[i]))

\* set(s.split())
Parts(s) == SplitFrom(s, 1, <<>>)

RECURSIVE ExactPass(_, _, _)
\* Lines 116-118.
ExactPass(norm_ai, pm, i) ==
    IF i > Len(pm) THEN None
    ELSE IF normalize_name(pm[i].name) = norm_ai THEN Some(Value(pm[i]))
    ELSE ExactPass(norm_ai, pm, i + 1)

RECURSIVE TokenPass(_, _, _)
\* Lines 119-123.
TokenPass(ai_parts, pm, i) ==
    IF i > Len(pm) THEN None
    ELSE IF ai_parts \cap Parts(normalize_name(pm[i].name)) # {} THEN Some(Value(pm[i]))
    ELSE TokenPass(ai_parts, pm, i + 1)

RECURSIVE OnePass(_, _, _)
\* A single loop that takes the first entry matching either way.
OnePass(norm_ai, pm, i) ==
    IF i > Len(pm) THEN None
    ELSE IF \/ normalize_name(pm[i].name) = norm_ai
            \/ Parts(norm_ai) \cap Parts(normalize_name(pm[i].name)) # {}
         THEN Some(Value(pm[i]))
    ELSE OnePass(norm_ai, pm, i + 1)

fuzzy_player_lookup_OnePass(ai, pm) == OnePass(normalize_name(ai), pm, 1)

\* fuzzy_player_lookup, lines 114-124.
fuzzy_player_lookup(ai, pm) ==
    LET norm_ai == normalize_name(ai)
        exact == ExactPass(norm_ai, pm, 1)
    IN IF exact # None THEN exact
       ELSE TokenPass(Parts(norm_ai), pm, 1)

FzInit ==
    /\ star_players \in Rosters
    /\ player_map = BuildPlayerMap(star_players)
    /\ ai_name \in CandidateNames
    /\ fuzzy_ret = None
    /\ fz_pc = "call"
    /\ HrIdle /\ NmIdle /\ SbIdle /\ AiIdle

\* fuzzy = fuzzy_player_lookup(name, player_map), line 356
FuzzyLookup ==
    /\ fz_pc = "call"
    /\ fuzzy_ret' = fuzzy_player_lookup(ai_name, player_map)
    /\ fz_pc' = "returned"
    /\ UNCHANGED <<star_players, player_map, ai_name, hr_vars, nm_vars, sb_vars, ai_vars>>

FzNext == FuzzyLookup
SpecFuzzy == FzInit /\ [][FzNext]_vars

\* The entries of player_map whose normalized name is the candidate's.
ExactMatches ==
    {i \in 1..Len(player_map) :
        normalize_name(player_map[i].name) = normalize_name(ai_name)}

\* The entries of player_map that share a token with the candidate.
TokenMatches ==
    {i \in 1..Len(player_map) :
        \E t \in Parts(normalize_name(ai_name)) :
            t \in Parts(normalize_name(player_map[i].name))}

Min(S) == CHOOSE x \in S : \A y \in S : x <= y

\* C5: fuzzy_player_lookup returns the first entry whose normalized name
\* equals the candidate's, if there is one; otherwise the first entry that
\* shares a token with the candidate; otherwise None.
C5_FuzzyLookup ==
    fz_pc = "returned" =>
        IF ExactMatches # {}
        THEN fuzzy_ret = Some(Value(player_map[Min(ExactMatches)]))
        ELSE IF TokenMatches # {}
             THEN fuzzy_ret = Some(Value(player_map[Min(TokenMatches)]))
             ELSE fuzzy_ret = None

\* Candidate 'b' against the roster ['a b', 'b jr.']: the first entry shares
\* the token b, the second is equal after normalization and is the result.
C5_Witness ==
    /\ fz_pc = "returned"
    /\ ai_name = <<"b">>
    /\ Len(player_map) = 2
    /\ player_map[1].name = <<"a", " ", "b">>
    /\ player_map[2].name = <<"b", " ", "j", "r", ".">>
    /\ fuzzy_ret = Some(<<2, player_map[2].team>>)


(***************************************************************************)
(* The sidebar selection and the main content's calls of fetch_hr_log      *)
(***************************************************************************)
\* team_abbrs, line 45: the codes of team_info.
team_abbrs == RosterTeams

\* Dates the 'Start date' widget can hold.
StartDates == {TOKYO_START, REGULAR_START}

\* team1_players = [n for n, _, t in star_players if t == team1_abbr]
TeamPlayers(abbr) ==
    LET of_team(r) == r.team = abbr
        rows == SelectSeq(star_players, of_team)
    IN [i \in 1..Len(rows) |-> rows[i].name]

\* What st.sidebar.selectbox can return: an option, or None without options.
SelectBox(options) ==
    IF options = <<>> THEN {None} ELSE {Some(options[i]) : i \in 1..Len(options)}

\* Lines 163-167: the warning for one slot, if any.
NoGameMsg(player, abbr, sd) ==
    IF abbr \notin {"LAD", "CHC"} /\ sd < REGULAR_START
    THEN <<[player |-> player, team |-> abbr]>>
    ELSE <<>>

\* player_map[name], lines 220-221, for a name that is a key.
Lookup(pm, n) == Value(pm[KeyIndex(pm, n)])

\* One tuple of the loop of lines 227-239: the arguments of fetch_hr_log.
FetchCall(pm, n) ==
    [name |-> n, pid |-> Lookup(pm, n)[1], code |-> Lookup(pm, n)[2]]

SbInit ==
    /\ star_players \in Rosters
    /\ player_map = BuildPlayerMap(star_players)
    /\ ai_name = <<>> /\ fuzzy_ret = None /\ fz_pc = "idle"
    /\ team1_abbr = "" /\ player1_name = None
    /\ team2_abbr = "" /\ player2_name = None
    /\ start_date = 0
    /\ no_game_msgs = <<>> /\ fetch_calls = <<>>
    /\ sb_pc = "start"
    /\ HrIdle /\ NmIdle /\ AiIdle

\* One run of the script for a state of the sidebar widgets, lines 138-239:
\* player_map[None] raises KeyError when a selected team lists no player.
ScriptRun ==
    \E t1 \in team_abbrs, t2 \in team_abbrs, sd \in StartDates :
    \E p1 \in SelectBox(TeamPlayers(t1)), p2 \in SelectBox(TeamPlayers(t2)) :
        /\ team1_abbr' = t1 /\ player1_name' = p1
        /\ team2_abbr' = t2 /\ player2_name' = p2
        /\ start_date' = sd
        /\ no_game_msgs' = NoGameMsg(p1, t1, sd) \o NoGameMsg(p2, t2, sd)
        /\ IF p1 = None \/ p2 = None
           THEN /\ fetch_calls' = <<>>
                /\ sb_pc' = "KeyError"
           ELSE /\ fetch_calls' = <<FetchCall(player_map, p1[1]),
                                     FetchCall(player_map, p2[1])>>
                /\ sb_pc' = "rendered"
        /\ UNCHANGED <<fz_vars, hr_vars, nm_vars, ai_vars>>

SbNext == ScriptRun
SpecSidebar == SbInit /\ [][SbNext]_vars

\* The team and player selected in each of the two slots.
Selected == <<[team |-> team1_abbr, player |-> player1_name],
              [team |-> team2_abbr, player |-> player2_name]>>

\* C10: the player identifier and team code passed to fetch_hr_log belong to
\* a roster row of the selected team with the selected name, so the team code
\* of the eligibility rule is the team code of the warning.
C10_SelectedTeamRow ==
    sb_pc = "rendered" =>
        \A slot \in 1..2 :
            /\ fetch_calls[slot].code = Selected[slot].team
            /\ \E i \in 1..Len(star_players) :
                  /\ star_players[i].team = Selected[slot].team
                  /\ Some(star_players[i].name) = Selected[slot].player
                  /\ star_players[i].pid = fetch_calls[slot].pid


(***************************************************************************)
(* ai_suggest_pairs, the Suggest / Retry button, the rendering             *)
(* In a reply's text the literals "Pair:", "Reason:", "and" and "&" are    *)
(* single elements; no other element shares a character with them.         *)
(***************************************************************************)
tries == 3

\* Texts of the 'response' field: well-formed with ' and ', well-formed with
\* ' & ' and a trailing newline, no markers, nothing between 'Pair:' and the
\* newline, nothing after 'Reason:', a preamble with a two-line pair and a
\* blank reason, and the empty text of a reply without 'response'.
ReplyTexts ==
    {<<"Pair:", " ", "A", " ", "and", " ", "B", "NL", "Reason:", " ", "x">>,
     <<"Pair:", "A", " ", "&", " ", "B", "NL", "Reason:", "x", "NL">>,
     <<"A", " ", "and", " ", "B">>,
     <<"Pair:", "NL", "Reason:", " ", "x">>,
     <<"Pair:", "A", "NL", "Reason:">>,
     <<"x", "NL", "Pair:", "A", "NL", "x", "NL", "Reason:", " ">>,
     <<>>}

\* Messages of the exceptions requests.post, resp.json and .get can raise.
ErrorTexts == {"timeout", ""}

\* What one pass through the try block of lines 311-318 meets.
Replies ==
    [raises : {TRUE}, msg : ErrorTexts, content : {<<>>}]
        \cup [raises : {FALSE}, msg : {""}, content : ReplyTexts]

RECURSIVE SpaceRun(_, _)
\* The number of whitespace characters of c from position j on.
SpaceRun(c, j) ==
    IF j <= Len(c) /\ IsSpace(c[j]) THEN 1 + SpaceRun(c, j + 1) ELSE 0

\* Ends b of group 1 for a match that starts at i and skips k spaces: the
\* group is not empty, '\nReason:' follows it and a character follows that.
PairEnds(c, i, k) ==
    {b \in (i + 1 + k)..Len(c) :
        /\ b + 3 <= Len(c)
        /\ c[b + 1] = "NL"
        /\ c[b + 2] = "Reason:"}

\* Numbers of spaces \s* can take after 'Pair:' at i in some match.
PairSkips(c, i) == {k \in 0..SpaceRun(c, i + 1) : PairEnds(c, i, k) # {}}

Max(S) == CHOOSE x \in S : \A y \in S : x >= y
Least(S) == CHOOSE x \in S : \A y \in S : x <= y

\* The groups of the match of line 319 that starts at i: \s* is greedy,
\* (.+?) is lazy, and (.+) runs to the end of the text (re.DOTALL).
GroupsAt(c, i) ==
    LET k == Max(PairSkips(c, i))
        b == Least(PairEnds(c, i, k))
        rest == b + 3
        m == IF SpaceRun(c, rest) > Len(c) - rest
             THEN Len(c) - rest
             ELSE SpaceRun(c, rest)
    IN <<SubSeq(c, i + 1 + k, b), SubSeq(c, rest + m, Len(c))>>

\* re.search(r"Pair:\s*(.+?)\nReason:\s*(.+)", content, re.DOTALL): the
\* groups of the leftmost match, or None.
Search(c) ==
    LET starts == {i \in 1..Len(c) : c[i] = "Pair:" /\ PairSkips(c, i) # {}}
    IN IF starts = {} THEN None ELSE Some(GroupsAt(c, Least(starts)))

\* A separator of re.split(r" and | & ", s) begins at position i.
SepAt(s, i) ==
    /\ i + 2 <= Len(s)
    /\ s[i] = " " /\ s[i + 1] \in {"and", "&"} /\ s[i + 2] = " "

RECURSIVE ReSplitFrom(_, _, _)
ReSplitFrom(s, i, piece) ==
    IF i > Len(s) THEN <<piece>>
    ELSE IF SepAt(s, i) THEN <<piece>> \o ReSplitFrom(s, i + 3, <<>>)
    ELSE ReSplitFrom(s, i + 1, Append(piece, s[i]))

\* Lines 321-323: the list with the one suggestion.
Suggestion(groups) ==
    LET pieces == ReSplitFrom(groups[1], 1, <<>>)
    IN <<[players |-> [i \in 1..Len(pieces) |-> Strip(pieces[i])],
          reason |-> Strip(groups[2])]>>

NoSuggestion == "No suitable suggestion found. Please try again."

\* One pass that gives up when the reply does not match.
Pass_NoRetry(r, i) ==
    IF r.raises
    THEN [returns |-> TRUE, results |-> None, error |-> Some("Error: " \o r.msg)]
    ELSE IF Search(r.content) # None
    THEN [returns |-> TRUE, results |-> Some(Suggestion(Search(r.content)[1])),
          error |-> None]
    ELSE [returns |-> TRUE, results |-> None, error |-> Some(NoSuggestion)]

\* The i-th pass through the loop of lines 310-326, whose request meets r:
\* whether ai_suggest_pairs returns in or right after it, and what. An
\* exception returns at once (line 325); a reply that does not match goes on
\* to the next pass, or to line 326 after the last one.
Pass(r, i) ==
    IF r.raises
    THEN [returns |-> TRUE, results |-> None, error |-> Some("Error: " \o r.msg)]
    ELSE IF Search(r.content) # None
    THEN [returns |-> TRUE, results |-> Some(Suggestion(Search(r.content)[1])),
          error |-> None]
    ELSE IF i = tries
    THEN [returns |-> TRUE, results |-> None, error |-> Some(NoSuggestion)]
    ELSE [returns |-> FALSE, results |-> None, error |-> None]

\* Python's truth value of an optional string, and of an optional list.
TruthyStr(x) == x # None /\ x[1] # ""
TruthyList(x) == x # None /\ x[1] # <<>>

\* The handler storing the error without clearing the stored suggestion.
ButtonHandler_KeepsSuggestion(r, old) ==
    IF TruthyStr(r.error)
    THEN [suggest_error |-> r.error, last_suggest |-> old]
    ELSE [suggest_error |-> None, last_suggest |-> r.results]

\* Lines 334-339: the session fields after a press whose call returned r.
ButtonHandler(r, old) ==
    IF TruthyStr(r.error)
    THEN [suggest_error |-> r.error, last_suggest |-> None]
    ELSE [suggest_error |-> None, last_suggest |-> r.results]

\* Lines 346-364: what the page shows for the session fields.
Render(ls, se) ==
    IF TruthyList(ls) THEN "suggestion"
    ELSE IF TruthyStr(se) THEN "error"
    ELSE "nothing"

\* A new session: lines 290-293 set both fields to None when first reached,
\* and st.session_state.get reads a missing field as None.
AiInit ==
    /\ last_suggest = None /\ suggest_error = None
    /\ replies = <<>> /\ call = None
    /\ rendered = "nothing"
    /\ ai_pc = "start"
    /\ HrIdle /\ NmIdle /\ FzIdle /\ SbIdle

\* A run of the script without a press. The comparison section, lines
\* 258-364, is reached only when both players have home runs.
Rerun ==
    /\ ai_pc # "calling"
    /\ \E both \in BOOLEAN :
          rendered' = IF both THEN Render(last_suggest, suggest_error) ELSE "hidden"
    /\ replies' = <<>> /\ call' = None
    /\ ai_pc' = "ran"
    /\ UNCHANGED <<last_suggest, suggest_error, hr_vars, nm_vars, fz_vars, sb_vars>>

\* A press of the button the last run showed starts the run in which
\* st.button returns True and ai_suggest_pairs is called under the spinner.
PressButton ==
    /\ ai_pc \in {"ran", "returned"}
    /\ rendered # "hidden"
    /\ replies' = <<>> /\ call' = None
    /\ rendered' = "spinner"
    /\ ai_pc' = "calling"
    /\ UNCHANGED <<last_suggest, suggest_error, hr_vars, nm_vars, fz_vars, sb_vars>>

\* One pass through the loop of ai_suggest_pairs. The pass in which the
\* function returns is followed in the same run by the handler's stores
\* (lines 334-339) and the rendering (lines 346-364).
Request ==
    /\ ai_pc = "calling"
    /\ \E r \in Replies :
        LET i == Len(replies) + 1
            out == Pass(r, i)
            new == ButtonHandler(out, last_suggest)
        IN /\ replies' = Append(replies, r)
           /\ IF out.returns
              THEN /\ call' = Some([results |-> out.results, error |-> out.error,
                                    requests |-> i,
                                    had_suggestion |-> last_suggest # None])
                   /\ last_suggest' = new.last_suggest
                   /\ suggest_error' = new.suggest_error
                   /\ rendered' = Render(new.last_suggest, new.suggest_error)
                   /\ ai_pc' = "returned"
              ELSE UNCHANGED <<call, last_suggest, suggest_error, rendered, ai_pc>>
    /\ UNCHANGED <<hr_vars, nm_vars, fz_vars, sb_vars>>

AiNext == Rerun \/ PressButton \/ Request
SpecAI == AiInit /\ [][AiNext]_vars


(***************************************************************************)
(* Properties of ai_suggest_pairs and of the session fields                *)
(***************************************************************************)
\* The call that has returned, when ai_pc = "returned".
Returned == call[1]

\* C7: an error caused by a failure of the service (a request or the
\* decoding of its reply raised) is returned only after all `tries` requests.
C7_ErrorAfterAllTries ==
    (ai_pc = "returned" /\ replies[Len(replies)].raises) =>
        Returned.requests = tries

\* The text has a match of 'Pair:', spaces, a non-empty pair, a newline,
\* 'Reason:' and at least one more character.
Matches(c) ==
    \E i \in 1..Len(c) : \E a \in (i + 1)..Len(c) : \E b \in a..Len(c) :
        /\ c[i] = "Pair:"
        /\ \A j \in (i + 1)..(a - 1) : c[j] \in {" ", "NL"}
        /\ b + 3 <= Len(c)
        /\ c[b + 1] = "NL" /\ c[b + 2] = "Reason:"

\* The requests of the call that met a matching reply.
MatchingReplies == {i \in 1..Len(replies) : Matches(replies[i].content)}

\* C8: when no reply raises, the call returns the parse of the first matching
\* reply and requests nothing after it; with no match in `tries` replies it
\* has made exactly `tries` requests and returns None with the fixed error.
\* A returned suggestion never comes from a reply that does not match.
C8_FirstMatchOrExhaust ==
    /\ (ai_pc = "returned" /\ \A i \in 1..Len(replies) : ~replies[i].raises) =>
          IF MatchingReplies # {}
          THEN /\ Len(replies) = Min(MatchingReplies)
               /\ Returned.requests = Min(MatchingReplies)
               /\ Returned.results =
                     Some(Suggestion(Search(replies[Min(MatchingReplies)].content)[1]))
               /\ Returned.error = None
          ELSE /\ Len(replies) = tries
               /\ Returned.requests = tries
               /\ Returned.results = None
               /\ Returned.error =
                     Some("No suitable suggestion found. Please try again.")
    /\ (ai_pc = "returned" /\ Returned.results # None) =>
          /\ ~replies[Returned.requests].raises
          /\ Matches(replies[Returned.requests].content)
    /\ Len(replies) <= tries

\* A reply without the markers, then 'Pair: A and B\nReason: x': two
\* requests, and the suggestion is the second reply's.
C8_Witness ==
    /\ ai_pc = "returned"
    /\ Len(replies) = 2
    /\ replies[1] = [raises |-> FALSE, msg |-> "",
                     content |-> <<"A", " ", "and", " ", "B">>]
    /\ replies[2].content =
          <<"Pair:", " ", "A", " ", "and", " ", "B", "NL", "Reason:", " ", "x">>
    /\ Returned.requests = 2
    /\ Returned.results =
          Some(<<[players |-> <<<<"A">>, <<"B">>>>, reason |-> <<"x">>]>>)

\* C9: last_suggest and suggest_error are never both set; a press that ends
\* in error clears last_suggest and shows the error, a press that succeeds
\* clears suggest_error and shows its suggestion; the error is shown only
\* when no suggestion is stored.
C9_NeverBothSet ==
    /\ ~(last_suggest # None /\ suggest_error # None)
    /\ (ai_pc = "returned" /\ Returned.error # None) =>
          /\ last_suggest = None
          /\ suggest_error = Returned.error
          /\ rendered = "error"
    /\ (ai_pc = "returned" /\ Returned.error = None) =>
          /\ suggest_error = None
          /\ last_suggest = Returned.results
          /\ rendered = "suggestion"
    /\ rendered = "error" => last_suggest = None
    /\ rendered = "suggestion" => (suggest_error = None /\ last_suggest # None)

\* A press that fails while a suggestion of an earlier press is stored.
C9_Witness ==
    /\ ai_pc = "returned"
    /\ Returned.had_suggestion
    /\ Returned.error # None
    /\ last_suggest = None
    /\ rendered = "error"

=============================================================================
